---- MODULE Spec2Model ----
(***************************************************************************)
(* A model of crates/rethnet_evm/src/miner.rs: mine_block, the admission   *)
(* loop that fits pending transactions into a gas-limited block, and       *)
(* calculate_next_base_fee.  The Block Builder, the Mempool cursor and the *)
(* Blockchain Store are collaborators whose code lives outside miner.rs;   *)
(* they are modelled from their contract (spec.md, sections 4.1 and 6).    *)
(***************************************************************************)
EXTENDS Integers, Sequences, FiniteSets, TLC

VARIABLES
    pc,                   \* position of mine_block (or of the base fee call)
    cfg,                  \* cfg.spec_id
    base_fee_param,       \* the base_fee argument (the caller's override)
    prevrandao,           \* the prevrandao argument
    min_gas_price,        \* the min_gas_price argument
    mine_ordering,        \* the mine_ordering argument
    mem_pool,             \* [transactions, block_gas_limit, updated]
    blockchain,           \* the store: its last header, the blocks inserted
    parent_header,        \* header of the block last_block() returned
    base_fee,             \* the local base_fee (Option)
    block_builder,        \* the Block Builder, None before construction
    pending_transactions, \* the cursor: transactions not yet yielded
    state,                \* world state: applied transactions and rewards
    block,                \* the finalized block, None before finalize
    results,              \* the local results
    traces,               \* the local traces
    offered,              \* history: what the cursor yielded, in order
    calls,                \* history: collaborator calls, in order
    ret                   \* the value mine_block returned, None before

vars == <<pc, cfg, base_fee_param, prevrandao, min_gas_price, mine_ordering,
          mem_pool, blockchain, parent_header, base_fee, block_builder,
          pending_transactions, state, block, results, traces, offered, calls,
          ret>>

(***************************************************************************)
(* Bounds of the model.                                                    *)
(***************************************************************************)
\* U256 is scaled down to WordBits bits: arithmetic wraps at 2^WordBits.
WordBits == 5
\* The largest number of pending transactions in the mempool.
MaxTxs == 2

Word == 2 ^ WordBits
MaxWord == Word - 1

(***************************************************************************)
(* Option<T>.                                                              *)
(***************************************************************************)
None == [is_some |-> FALSE]
Some(x) == [is_some |-> TRUE, value |-> x]

(***************************************************************************)
(* U256 arithmetic (ruint): +, - and * wrap, saturating_sub stops at zero, *)
(* / truncates and panics on a zero divisor (the callers test for it).     *)
(***************************************************************************)
WrappingAdd(a, b) == (a + b) % Word
WrappingSub(a, b) == (a - b + Word) % Word
WrappingMul(a, b) == (a * b) % Word
SaturatingSub(a, b) == IF a > b THEN a - b ELSE 0
Max(a, b) == IF a >= b THEN a ELSE b
Min(a, b) == IF a <= b THEN a ELSE b

(***************************************************************************)
(* calculate_next_base_fee (miner.rs 218-248).                             *)
(***************************************************************************)
elasticity == 2
base_fee_max_change_denominator == 8

parent_gas_target(parent) == parent.gas_limit \div elasticity

\* The call panics: the expect() on a header without base fee, or the
\* division by a zero gas target in the Less and Greater branches.
NextBaseFeePanics(parent) ==
    \/ ~parent.base_fee_per_gas.is_some
    \/ /\ parent_gas_target(parent) = 0
       /\ parent.gas_used # parent_gas_target(parent)

BaseFeeDelta(parent_base_fee, gas_used_delta, target) ==
    (WrappingMul(parent_base_fee, gas_used_delta) \div target)
        \div base_fee_max_change_denominator

calculate_next_base_fee(parent) ==
    LET target == parent_gas_target(parent)
        parent_base_fee == parent.base_fee_per_gas.value
    IN  IF parent.gas_used < target
        THEN SaturatingSub(parent_base_fee,
                 BaseFeeDelta(parent_base_fee, target - parent.gas_used, target))
        ELSE IF parent.gas_used = target
        THEN parent_base_fee
        ELSE WrappingAdd(parent_base_fee,
                 Max(BaseFeeDelta(parent_base_fee, parent.gas_used - target, target), 1))

(***************************************************************************)
(* cfg.spec_id: the hardforks mine_block compares against.                 *)
(***************************************************************************)
SpecIds == {"BERLIN", "LONDON", "MERGE"}
SpecRank(spec_id) ==
    CASE spec_id = "BERLIN" -> 0
      [] spec_id = "LONDON" -> 1
      [] spec_id = "MERGE" -> 2

\* cfg.spec_id >= SpecId::LONDON (line 94)
FeeMarketActive(spec_id) == SpecRank(spec_id) >= SpecRank("LONDON")
\* Mutant: the merge test written against London.
MergeActive_AsLondon(spec_id) == SpecRank(spec_id) >= SpecRank("LONDON")

\* cfg.spec_id >= SpecId::MERGE (lines 108 and 113)
MergeActive(spec_id) == SpecRank(spec_id) >= SpecRank("MERGE")

(***************************************************************************)
(* The base fee of the new block (lines 94-98): None before London, else   *)
(* the override, else calculate_next_base_fee(parent_header).              *)
(***************************************************************************)
\* Mutant: the next base fee is computed whenever the fee market is active.
CallsNextBaseFee_WheneverActive(spec_id, override) == FeeMarketActive(spec_id)

\* lines 94-95: unwrap_or_else calls it only without an override
CallsNextBaseFee(spec_id, override) == FeeMarketActive(spec_id) /\ ~override.is_some

\* Mutant: the override is taken whatever the hardfork.
NewBaseFee_OverrideAlways(spec_id, override, parent) ==
    IF override.is_some THEN override
    ELSE IF FeeMarketActive(spec_id) THEN Some(calculate_next_base_fee(parent))
    ELSE None

NewBaseFee(spec_id, override, parent) ==
    IF FeeMarketActive(spec_id)
    THEN Some(IF override.is_some THEN override.value
              ELSE calculate_next_base_fee(parent))
    ELSE None

(***************************************************************************)
(* The comparators of lines 127-153.  An Ordering is "Less", "Equal" or    *)
(* "Greater".                                                              *)
(***************************************************************************)
Cmp(a, b) == IF a < b THEN "Less" ELSE IF a = b THEN "Equal" ELSE "Greater"

effective_miner_fee(transaction, fee) ==
    LET max_fee_per_gas == transaction.gas_price
        max_priority_fee_per_gas ==
            IF transaction.max_priority_fee_per_gas.is_some
            THEN transaction.max_priority_fee_per_gas.value
            ELSE max_fee_per_gas
    IN  IF fee.is_some
        THEN Min(max_priority_fee_per_gas, WrappingSub(max_fee_per_gas, fee.value))
        ELSE max_fee_per_gas

\* Mutant: the insertion ids compared the other way round.
FifoComparator_Reversed(lhs, rhs) == Cmp(rhs.order_id, lhs.order_id)

\* line 128
FifoComparator(lhs, rhs) == Cmp(lhs.order_id, rhs.order_id)

PriorityComparator(lhs, rhs, fee) ==
    LET ordering == Cmp(effective_miner_fee(rhs, fee), effective_miner_fee(lhs, fee))
    IN  IF ordering = "Equal" THEN Cmp(lhs.order_id, rhs.order_id) ELSE ordering

comparator(ordering, lhs, rhs, fee) ==
    IF ordering = "Fifo" THEN FifoComparator(lhs, rhs)
    ELSE PriorityComparator(lhs, rhs, fee)

(***************************************************************************)
(* The Mempool cursor (mem_pool.iter, next, remove_caller): one queue per  *)
(* sender in insertion order, and a merge over the heads of the queues by  *)
(* the comparator.  remove_caller drops the sender's queue.                *)
(***************************************************************************)
Heads(pending) ==
    {t \in pending : \A u \in pending : u.caller = t.caller => t.order_id <= u.order_id}

CursorNext(pending, ordering, fee) ==
    CHOOSE t \in Heads(pending) :
        \A u \in Heads(pending) \ {t} : comparator(ordering, t, u, fee) = "Less"

remove_caller(pending, caller) == {t \in pending : t.caller # caller}

\* Mutant: the block takes the parent's gas limit, not the mempool's.
BuilderGasLimit_FromParent(pool, parent) == parent.gas_limit

(***************************************************************************)
(* The Block Builder: new, add_transaction, finalize.                      *)
(***************************************************************************)
\* BlockOptions.gas_limit (line 106)
BuilderGasLimit(pool, parent) == pool.block_gas_limit

BuilderNew(gas_limit, fee) ==
    [gas_limit |-> gas_limit, gas_used |-> 0, base_fee |-> fee, transactions |-> <<>>]

gas_remaining(builder) == builder.gas_limit - builder.gas_used

\* What add_transaction may answer for a transaction: the two skip-class
\* errors are decided by the builder's gas and base fee; otherwise the
\* execution succeeds, using some of the transaction's gas, or fails with
\* another error.
AddOutcomes(builder, transaction) ==
    IF transaction.gas_limit > gas_remaining(builder)
    THEN {[kind |-> "ExceedsBlockGasLimit", gas_used |-> 0]}
    ELSE IF builder.base_fee.is_some /\ transaction.gas_price < builder.base_fee.value
    THEN {[kind |-> "GasPriceLessThanBasefee", gas_used |-> 0]}
    ELSE {[kind |-> "Ok", gas_used |-> g] : g \in {1, transaction.gas_limit}}
         \cup {[kind |-> "Other", gas_used |-> 0]}

BuilderAdded(builder, transaction, used) ==
    [builder EXCEPT !.gas_used = @ + used,
                    !.transactions = Append(@, transaction.order_id)]

(***************************************************************************)
(* The decisions of the admission loop (lines 161-189).                    *)
(***************************************************************************)
\* Mutant: no transaction is below the floor.
BelowMinGasPrice_Never(transaction, floor) == FALSE

\* line 164
BelowMinGasPrice(transaction, floor) == transaction.gas_price < floor

\* Mutant: only the gas limit error is a skip.
IsSkipError_OnlyGasLimit(kind) == kind = "ExceedsBlockGasLimit"

\* lines 172-177: the errors that skip the transaction
IsSkipError(kind) == kind \in {"ExceedsBlockGasLimit", "GasPriceLessThanBasefee"}

\* Mutant: the entry is put in front.
PushResult_Prepend(seq, entry) == <<entry>> \o seq

\* lines 185-186
PushResult(seq, entry) == Append(seq, entry)

(***************************************************************************)
(* The inputs of one mining attempt.                                       *)
(***************************************************************************)
Callers == {"a", "b"}
GasPrices == {1, 4}
PriorityFees == {None, Some(1)}
GasLimits == {1, 3}
MinGasPrices == {0, 2}
BaseFeeParams == {None, Some(3)}
BlockGasLimits == {2, 3}

\* Only a priority fee cap below the gas price changes the effective fee;
\* the shapes carry one on the small, expensive transactions.
TxShapes ==
    {t \in [caller : Callers, gas_price : GasPrices,
            max_priority_fee_per_gas : PriorityFees, gas_limit : GasLimits] :
        t.max_priority_fee_per_gas.is_some =>
            /\ t.max_priority_fee_per_gas.value < t.gas_price
            /\ t.gas_limit = 1}

\* The pending transactions of a mempool: insertion gives each its order_id.
PendingOf(shapes) ==
    {[order_id |-> i, caller |-> shapes[i].caller, gas_price |-> shapes[i].gas_price,
      max_priority_fee_per_gas |-> shapes[i].max_priority_fee_per_gas,
      gas_limit |-> shapes[i].gas_limit] : i \in DOMAIN shapes}

MemPoolsOf(sizes) ==
    {[transactions |-> PendingOf(shapes), block_gas_limit |-> g, updated |-> FALSE] :
        shapes \in UNION {[1..n -> TxShapes] : n \in sizes}, g \in BlockGasLimits}

Header(fee, used, limit) ==
    [base_fee_per_gas |-> fee, gas_used |-> used, gas_limit |-> limit]

\* The parent headers the store may hold: one without base fee, one above
\* its gas target (next base fee 2), one with a zero gas target.
ParentHeaders ==
    {Header(None, 0, 4), Header(Some(1), 3, 4), Header(Some(2), 1, 1)}

NoHeader == Header(None, 0, 0)

\* The attempts explored.  What happens before the loop is explored for
\* every combination of hardfork, override, prevrandao and parent header
\* over the mempools of at most one transaction; the loop is explored for
\* every mempool of up to MaxTxs transactions, with the prevrandao supplied
\* and a parent the base fee can be computed from.
SetupAttempts ==
    [cfg : SpecIds, base_fee : BaseFeeParams, prevrandao : {None, Some("seed")},
     min_gas_price : MinGasPrices, mine_ordering : {"Fifo", "Priority"},
     mem_pool : MemPoolsOf(0..1), parent : ParentHeaders]

LoopAttempts ==
    [cfg : SpecIds, base_fee : BaseFeeParams, prevrandao : {Some("seed")},
     min_gas_price : MinGasPrices, mine_ordering : {"Fifo", "Priority"},
     mem_pool : MemPoolsOf(2..MaxTxs), parent : {Header(Some(1), 3, 4)}]

Call(op, tx, outcome) == [op |-> op, tx |-> tx, outcome |-> outcome]

Init ==
    /\ pc = "last_block"
    /\ \E a \in SetupAttempts \cup LoopAttempts :
          /\ cfg = a.cfg
          /\ base_fee_param = a.base_fee
          /\ prevrandao = a.prevrandao
          /\ min_gas_price = a.min_gas_price
          /\ mine_ordering = a.mine_ordering
          /\ mem_pool = a.mem_pool
          /\ blockchain = [last_header |-> a.parent, blocks |-> <<>>]
    /\ parent_header = NoHeader
    /\ base_fee = None
    /\ block_builder = None
    /\ pending_transactions = {}
    /\ state = [transactions |-> <<>>, rewards |-> <<>>]
    /\ block = None
    /\ results = <<>>
    /\ traces = <<>>
    /\ offered = <<>>
    /\ calls = <<>>
    /\ ret = None

Err(e) == [ok |-> FALSE, error |-> e]

inputs == <<cfg, base_fee_param, prevrandao, min_gas_price, mine_ordering>>
locals == <<results, traces, block>>

(***************************************************************************)
(* mine_block, lines 88-91: blockchain.last_block().                       *)
(***************************************************************************)
LastBlockOk ==
    /\ pc = "last_block"
    /\ parent_header' = blockchain.last_header
    /\ calls' = Append(calls, Call("last_block", 0, "Ok"))
    /\ pc' = "base_fee"
    /\ UNCHANGED <<inputs, mem_pool, blockchain, base_fee, block_builder,
                   pending_transactions, state, locals, offered, ret>>

LastBlockErr ==
    /\ pc = "last_block"
    /\ calls' = Append(calls, Call("last_block", 0, "Err"))
    /\ ret' = Err("Blockchain")
    /\ pc' = "done"
    /\ UNCHANGED <<inputs, mem_pool, blockchain, parent_header, base_fee,
                   block_builder, pending_transactions, state, locals,
                   offered>>

(***************************************************************************)
(* Lines 93-98: the base fee.  calculate_next_base_fee may panic.          *)
(***************************************************************************)
BaseFee ==
    /\ pc = "base_fee"
    /\ ~(CallsNextBaseFee(cfg, base_fee_param) /\ NextBaseFeePanics(parent_header))
    /\ base_fee' = NewBaseFee(cfg, base_fee_param, parent_header)
    /\ pc' = "block_builder"
    /\ UNCHANGED <<inputs, mem_pool, blockchain, parent_header, block_builder,
                   pending_transactions, state, locals, offered, calls, ret>>

BaseFeePanic ==
    /\ pc = "base_fee"
    /\ CallsNextBaseFee(cfg, base_fee_param)
    /\ NextBaseFeePanics(parent_header)
    /\ pc' = "panicked"
    /\ UNCHANGED <<inputs, mem_pool, blockchain, parent_header, base_fee,
                   block_builder, pending_transactions, state, locals,
                   offered, calls, ret>>

(***************************************************************************)
(* Lines 100-156: the block options (prevrandao is required after the      *)
(* merge), BlockBuilder::new, and the cursor over the mempool.             *)
(***************************************************************************)
MissingPrevrandao ==
    /\ pc = "block_builder"
    /\ MergeActive(cfg)
    /\ ~prevrandao.is_some
    /\ ret' = Err("MissingPrevrandao")
    /\ pc' = "done"
    /\ UNCHANGED <<inputs, mem_pool, blockchain, parent_header, base_fee,
                   block_builder, pending_transactions, state, locals,
                   offered, calls>>

BlockBuilderNewOk ==
    /\ pc = "block_builder"
    /\ MergeActive(cfg) => prevrandao.is_some
    /\ calls' = Append(calls, Call("new", 0, "Ok"))
    /\ block_builder' = BuilderNew(BuilderGasLimit(mem_pool, parent_header), base_fee)
    /\ pending_transactions' = mem_pool.transactions
    /\ pc' = "loop"
    /\ UNCHANGED <<inputs, mem_pool, blockchain, parent_header, base_fee, state,
                   locals, offered, ret>>

BlockBuilderNewErr ==
    /\ pc = "block_builder"
    /\ MergeActive(cfg) => prevrandao.is_some
    /\ calls' = Append(calls, Call("new", 0, "Err"))
    /\ ret' = Err("BlockBuilderCreation")
    /\ pc' = "done"
    /\ UNCHANGED <<inputs, mem_pool, blockchain, parent_header, base_fee,
                   block_builder, pending_transactions, state, locals,
                   offered>>

(***************************************************************************)
(* Lines 158-189: the admission loop, one action per way an iteration      *)
(* ends.                                                                   *)
(***************************************************************************)
transaction == CursorNext(pending_transactions, mine_ordering, base_fee)

\* Mutant: next() leaves the transaction it yields in the cursor.
Yielded_NotConsumed == pending_transactions

\* line 161: the cursor after next()
Yielded == pending_transactions \ {transaction}

\* line 161: the cursor is drained
LoopEnd ==
    /\ pc = "loop"
    /\ pending_transactions = {}
    /\ pc' = "finalize"
    /\ UNCHANGED <<inputs, mem_pool, blockchain, parent_header, base_fee,
                   block_builder, pending_transactions, state, locals, offered,
                   calls, ret>>

\* Mutant: the skip leaves the sender's other transactions in the cursor.
SkipBelowMinGasPrice_NoEvict ==
    /\ pc = "loop"
    /\ pending_transactions # {}
    /\ BelowMinGasPrice(transaction, min_gas_price)
    /\ offered' = Append(offered, transaction)
    /\ pending_transactions' = Yielded
    /\ UNCHANGED <<pc, inputs, mem_pool, blockchain, parent_header, base_fee,
                   block_builder, state, locals, calls, ret>>

\* lines 164-167
SkipBelowMinGasPrice ==
    /\ pc = "loop"
    /\ pending_transactions # {}
    /\ BelowMinGasPrice(transaction, min_gas_price)
    /\ offered' = Append(offered, transaction)
    /\ pending_transactions' = remove_caller(Yielded, transaction.caller)
    /\ UNCHANGED <<pc, inputs, mem_pool, blockchain, parent_header, base_fee,
                   block_builder, state, locals, calls, ret>>

\* Mutant: the skip leaves the sender's other transactions in the cursor.
AddTransactionSkip_NoEvict ==
    /\ pc = "loop"
    /\ pending_transactions # {}
    /\ ~BelowMinGasPrice(transaction, min_gas_price)
    /\ \E o \in AddOutcomes(block_builder, transaction) :
          /\ o.kind # "Ok"
          /\ IsSkipError(o.kind)
          /\ calls' = Append(calls,
                 Call("add_transaction", transaction.order_id, o.kind))
    /\ offered' = Append(offered, transaction)
    /\ pending_transactions' = Yielded
    /\ UNCHANGED <<pc, inputs, mem_pool, blockchain, parent_header, base_fee,
                   block_builder, state, locals, ret>>

\* Mutant: the skip also takes back what the sender had included.
AddTransactionSkip_Retract ==
    /\ pc = "loop"
    /\ pending_transactions # {}
    /\ ~BelowMinGasPrice(transaction, min_gas_price)
    /\ \E o \in AddOutcomes(block_builder, transaction) :
          /\ o.kind # "Ok"
          /\ IsSkipError(o.kind)
          /\ calls' = Append(calls,
                 Call("add_transaction", transaction.order_id, o.kind))
    /\ LET own == {t.order_id : t \in {u \in pending_transactions \cup
                       {offered[i] : i \in DOMAIN offered} :
                           u.caller = transaction.caller}}
       IN  /\ results' = SelectSeq(results, LAMBDA r : r.tx \notin own)
           /\ traces' = SelectSeq(traces, LAMBDA r : r.tx \notin own)
    /\ offered' = Append(offered, transaction)
    /\ pending_transactions' = remove_caller(Yielded, transaction.caller)
    /\ UNCHANGED <<pc, inputs, mem_pool, blockchain, parent_header, base_fee,
                   block_builder, state, block, ret>>

\* lines 170-180: a skip-class error
AddTransactionSkip ==
    /\ pc = "loop"
    /\ pending_transactions # {}
    /\ ~BelowMinGasPrice(transaction, min_gas_price)
    /\ \E o \in AddOutcomes(block_builder, transaction) :
          /\ o.kind # "Ok"
          /\ IsSkipError(o.kind)
          /\ calls' = Append(calls,
                 Call("add_transaction", transaction.order_id, o.kind))
    /\ offered' = Append(offered, transaction)
    /\ pending_transactions' = remove_caller(Yielded, transaction.caller)
    /\ UNCHANGED <<pc, inputs, mem_pool, blockchain, parent_header, base_fee,
                   block_builder, state, locals, ret>>

\* Mutant: the error skips the transaction and the loop goes on.
AddTransactionErr_Continue ==
    /\ pc = "loop"
    /\ pending_transactions # {}
    /\ ~BelowMinGasPrice(transaction, min_gas_price)
    /\ \E o \in AddOutcomes(block_builder, transaction) :
          /\ o.kind # "Ok"
          /\ ~IsSkipError(o.kind)
          /\ calls' = Append(calls,
                 Call("add_transaction", transaction.order_id, o.kind))
    /\ offered' = Append(offered, transaction)
    /\ pending_transactions' = remove_caller(Yielded, transaction.caller)
    /\ UNCHANGED <<pc, inputs, mem_pool, blockchain, parent_header, base_fee,
                   block_builder, state, locals, ret>>

\* lines 181-183: any other error
AddTransactionErr ==
    /\ pc = "loop"
    /\ pending_transactions # {}
    /\ ~BelowMinGasPrice(transaction, min_gas_price)
    /\ \E o \in AddOutcomes(block_builder, transaction) :
          /\ o.kind # "Ok"
          /\ ~IsSkipError(o.kind)
          /\ calls' = Append(calls,
                 Call("add_transaction", transaction.order_id, o.kind))
    /\ offered' = Append(offered, transaction)
    /\ pending_transactions' = Yielded
    /\ ret' = Err("BlockTransaction")
    /\ pc' = "done"
    /\ UNCHANGED <<inputs, mem_pool, blockchain, parent_header, base_fee,
                   block_builder, state, locals>>

\* lines 184-187
AddTransactionOk ==
    /\ pc = "loop"
    /\ pending_transactions # {}
    /\ ~BelowMinGasPrice(transaction, min_gas_price)
    /\ \E o \in AddOutcomes(block_builder, transaction) :
          /\ o.kind = "Ok"
          /\ block_builder' = BuilderAdded(block_builder, transaction, o.gas_used)
          /\ results' = PushResult(results,
                 [tx |-> transaction.order_id, gas_used |-> o.gas_used])
          /\ calls' = Append(calls,
                 Call("add_transaction", transaction.order_id, o.kind))
    /\ state' = [state EXCEPT !.transactions = Append(@, transaction.order_id)]
    /\ traces' = PushResult(traces, [tx |-> transaction.order_id])
    /\ offered' = Append(offered, transaction)
    /\ pending_transactions' = Yielded
    /\ UNCHANGED <<pc, inputs, mem_pool, blockchain, parent_header, base_fee,
                   block, ret>>

(***************************************************************************)
(* Lines 191-194: finalize with the beneficiary's reward.                  *)
(***************************************************************************)
\* Mutant: no reward entry is given to finalize.
rewards_Empty == <<>>

\* line 191
rewards == <<[address |-> "beneficiary", amount |-> "reward"]>>

FinalizeOk ==
    /\ pc = "finalize"
    /\ calls' = Append(calls, Call("finalize", 0, "Ok"))
    /\ block' = [transactions |-> block_builder.transactions,
                 gas_used |-> block_builder.gas_used,
                 gas_limit |-> block_builder.gas_limit,
                 base_fee |-> block_builder.base_fee]
    /\ state' = [state EXCEPT !.rewards = rewards]
    /\ pc' = "insert_block"
    /\ UNCHANGED <<inputs, mem_pool, blockchain, parent_header, base_fee,
                   block_builder, pending_transactions, results, traces, offered,
                   ret>>

FinalizeErr ==
    /\ pc = "finalize"
    /\ calls' = Append(calls, Call("finalize", 0, "Err"))
    /\ ret' = Err("BlockFinalize")
    /\ pc' = "done"
    /\ UNCHANGED <<inputs, mem_pool, blockchain, parent_header, base_fee,
                   block_builder, pending_transactions, state, locals, offered>>

(***************************************************************************)
(* Lines 196-199: blockchain.insert_block.                                 *)
(***************************************************************************)
InsertBlockOk ==
    /\ pc = "insert_block"
    /\ calls' = Append(calls, Call("insert_block", 0, "Ok"))
    /\ blockchain' = [blockchain EXCEPT !.blocks = Append(@, block)]
    /\ pc' = "update"
    /\ UNCHANGED <<inputs, mem_pool, parent_header, base_fee, block_builder,
                   pending_transactions, state, locals, offered, ret>>

\* Mutant: the error of insert_block is dropped.
InsertBlockErr_Swallowed ==
    /\ pc = "insert_block"
    /\ calls' = Append(calls, Call("insert_block", 0, "Err"))
    /\ pc' = "update"
    /\ UNCHANGED <<inputs, mem_pool, blockchain, parent_header, base_fee,
                   block_builder, pending_transactions, state, locals, offered,
                   ret>>

InsertBlockErr ==
    /\ pc = "insert_block"
    /\ calls' = Append(calls, Call("insert_block", 0, "Err"))
    /\ ret' = Err("Blockchain")
    /\ pc' = "done"
    /\ UNCHANGED <<inputs, mem_pool, blockchain, parent_header, base_fee,
                   block_builder, pending_transactions, state, locals, offered>>

(***************************************************************************)
(* Lines 201-210: mem_pool.update, then the result.                        *)
(***************************************************************************)
Applied(st) == {st.transactions[i] : i \in DOMAIN st.transactions}

MemPoolUpdated(pool, st) ==
    [pool EXCEPT !.transactions = {t \in @ : t.order_id \notin Applied(st)},
                 !.updated = TRUE]

UpdateOk ==
    /\ pc = "update"
    /\ calls' = Append(calls, Call("update", 0, "Ok"))
    /\ mem_pool' = MemPoolUpdated(mem_pool, state)
    /\ ret' = [ok |-> TRUE, block |-> block, state |-> state,
               transaction_results |-> results, transaction_traces |-> traces]
    /\ pc' = "done"
    /\ UNCHANGED <<inputs, blockchain, parent_header, base_fee, block_builder,
                   pending_transactions, state, locals, offered>>

UpdateErr ==
    /\ pc = "update"
    /\ calls' = Append(calls, Call("update", 0, "Err"))
    /\ ret' = Err("MemPoolUpdate")
    /\ pc' = "done"
    /\ UNCHANGED <<inputs, mem_pool, blockchain, parent_header, base_fee,
                   block_builder, pending_transactions, state, locals, offered>>

Next ==
    \/ LastBlockOk \/ LastBlockErr
    \/ BaseFee \/ BaseFeePanic
    \/ MissingPrevrandao \/ BlockBuilderNewOk \/ BlockBuilderNewErr
    \/ LoopEnd \/ SkipBelowMinGasPrice
    \/ AddTransactionSkip \/ AddTransactionErr \/ AddTransactionOk
    \/ FinalizeOk \/ FinalizeErr
    \/ InsertBlockOk \/ InsertBlockErr
    \/ UpdateOk \/ UpdateErr

Spec == Init /\ [][Next]_vars

\* mine_block is sequential code: as long as each collaborator call returns,
\* the step it is at is taken.
SpecLive == Spec /\ WF_vars(Next)

(***************************************************************************)
(* calculate_next_base_fee on its own: every parent header of the word     *)
(* width, and one call.                                                    *)
(***************************************************************************)
FeeHeaders ==
    {Header(fee, used, limit) :
        fee \in {None} \cup {Some(f) : f \in 0..MaxWord},
        used \in 0..MaxWord, limit \in 0..MaxWord}

FeeInit ==
    /\ pc = "fee_call"
    /\ parent_header \in FeeHeaders
    /\ cfg = "LONDON"
    /\ base_fee_param = None
    /\ prevrandao = None
    /\ min_gas_price = 0
    /\ mine_ordering = "Fifo"
    /\ mem_pool = [transactions |-> {}, block_gas_limit |-> 0, updated |-> FALSE]
    /\ blockchain = [last_header |-> parent_header, blocks |-> <<>>]
    /\ base_fee = None
    /\ block_builder = None
    /\ pending_transactions = {}
    /\ state = [transactions |-> <<>>, rewards |-> <<>>]
    /\ block = None
    /\ results = <<>>
    /\ traces = <<>>
    /\ offered = <<>>
    /\ calls = <<>>
    /\ ret = None

FeeReturn ==
    /\ pc = "fee_call"
    /\ ~NextBaseFeePanics(parent_header)
    /\ base_fee' = Some(calculate_next_base_fee(parent_header))
    /\ pc' = "fee_done"
    /\ UNCHANGED <<inputs, mem_pool, blockchain, parent_header, block_builder,
                   pending_transactions, state, locals, offered, calls, ret>>

FeePanic ==
    /\ pc = "fee_call"
    /\ NextBaseFeePanics(parent_header)
    /\ pc' = "fee_panicked"
    /\ UNCHANGED <<inputs, mem_pool, blockchain, parent_header, base_fee,
                   block_builder, pending_transactions, state, locals, offered,
                   calls, ret>>

FeeNext == FeeReturn \/ FeePanic

SpecFee == FeeInit /\ [][FeeNext]_vars

(***************************************************************************)
(* Vocabulary of the properties.                                           *)
(***************************************************************************)
Range(seq) == {seq[i] : i \in DOMAIN seq}
Returned == ret # None
Succeeded == Returned /\ ret.ok
Failed(e) == ret = Err(e)

\* The ids of the included transactions, as the result lists them.
IncludedIds == {results[i].tx : i \in DOMAIN results}
\* Every pending transaction of the attempt: still in the pool, or yielded.
AllTransactions == mem_pool.transactions \cup Range(offered)
\* Position of a transaction in the offered order, 0 if it was never yielded.
OfferedAt(t) ==
    IF t \in Range(offered) THEN CHOOSE i \in DOMAIN offered : offered[i] = t ELSE 0
\* The transaction ids of a sequence of results, traces or calls.
IdsOf(seq) == [i \in DOMAIN seq |-> seq[i].tx]

(***************************************************************************)
(* C1.  As stated: after a successful mine_block, a pending transaction t  *)
(* with gas price below min_gas_price is not included, and neither is any  *)
(* other transaction of t's sender, offered before or after t.             *)
(***************************************************************************)
C1_Original ==
    Succeeded =>
        \A t \in AllTransactions :
            t.gas_price < min_gas_price =>
                \A u \in AllTransactions :
                    u.caller = t.caller => u.order_id \notin IncludedIds

(***************************************************************************)
(* C1, amended.  After a successful mine_block, a pending transaction t    *)
(* with gas price below min_gas_price is not included, and a transaction   *)
(* of t's sender is included only if the cursor yielded it before t was    *)
(* yielded or evicted: nothing of the sender is included from t on.        *)
(***************************************************************************)
C1_BelowFloorExcluded ==
    Succeeded =>
        \A t \in AllTransactions :
            t.gas_price < min_gas_price =>
                /\ t.order_id \notin IncludedIds
                /\ \A u \in AllTransactions :
                      (u.caller = t.caller /\ u.order_id \in IncludedIds) =>
                          /\ u \in Range(offered)
                          /\ t \in Range(offered) => OfferedAt(u) < OfferedAt(t)
                          /\ t \notin Range(offered) =>
                                \E v \in Range(offered) :
                                    /\ v.caller = t.caller
                                    /\ v.order_id \notin IncludedIds
                                    /\ OfferedAt(u) < OfferedAt(v)

\* A success where a transaction below the floor was yielded and skipped, a
\* later transaction of its sender that pays the floor was evicted with it.
C1_Witness ==
    /\ Succeeded
    /\ \E t \in Range(offered), u \in mem_pool.transactions :
          /\ t.gas_price < min_gas_price
          /\ u.caller = t.caller
          /\ u.gas_price >= min_gas_price
          /\ u \notin Range(offered)

(***************************************************************************)
(* C2.  Within one attempt, once a transaction of a sender has been        *)
(* skipped (below min_gas_price, exceeding the remaining block gas, or     *)
(* below the base fee), the cursor yields no transaction of that sender    *)
(* afterwards and none is included afterwards: whatever was yielded before *)
(* another transaction of the same sender was itself included.             *)
(***************************************************************************)
C2_SkippedSenderStaysOut ==
    /\ IncludedIds \subseteq {t.order_id : t \in Range(offered)}
    /\ \A i, j \in DOMAIN offered :
          (i < j /\ offered[i].caller = offered[j].caller) =>
              /\ offered[i].order_id \in IncludedIds
              /\ \E k \in DOMAIN results : results[k].tx = offered[i].order_id

\* Two transactions of one sender, the first larger than the remaining block
\* gas, the second small enough to fit: the attempt succeeds with neither.
C2_Witness ==
    /\ Succeeded
    /\ \E t \in Range(offered), u \in mem_pool.transactions :
          /\ u.caller = t.caller
          /\ t.order_id < u.order_id
          /\ \E i \in DOMAIN calls :
                calls[i] = Call("add_transaction", t.order_id, "ExceedsBlockGasLimit")
          /\ u.gas_limit <= block.gas_limit - block.gas_used
          /\ u.gas_price >= min_gas_price
          /\ u \notin Range(offered)
          /\ {t.order_id, u.order_id} \cap IncludedIds = {}

SkipClass == {"ExceedsBlockGasLimit", "GasPriceLessThanBasefee"}
Drained == pc \in {"finalize", "insert_block", "update"} \/ Succeeded

(***************************************************************************)
(* C3.  An add_transaction that fails with ExceedsBlockGasLimit or with    *)
(* GasPriceLessThanBasefee never makes mine_block return an error: the     *)
(* loop goes on with what the cursor yields next, and once the cursor is   *)
(* drained every transaction it yielded that pays min_gas_price was given  *)
(* to the builder.                                                         *)
(***************************************************************************)
C3_SkipIsNotAnError ==
    /\ \A i \in DOMAIN calls :
          (calls[i].op = "add_transaction" /\ calls[i].outcome \in SkipClass) =>
              \/ i < Len(calls)
              \/ ~Returned /\ pc \in {"loop", "finalize"}
    /\ Failed("BlockTransaction") => calls[Len(calls)].outcome \notin SkipClass
    /\ Drained =>
          \A t \in Range(offered) :
              t.gas_price >= min_gas_price =>
                  \E i \in DOMAIN calls :
                      calls[i].op = "add_transaction" /\ calls[i].tx = t.order_id

\* A success in which the builder rejected a transaction with a skip-class
\* error and a transaction of another sender, yielded later, was included.
C3_Witness ==
    /\ Succeeded
    /\ \E i, j \in DOMAIN calls :
          /\ i < j
          /\ calls[i].op = "add_transaction"
          /\ calls[i].outcome \in SkipClass
          /\ calls[j] = Call("add_transaction", calls[j].tx, "Ok")

(***************************************************************************)
(* C4.  An add_transaction that fails with any other error ends the        *)
(* attempt at once with the BlockTransaction error: it is the last         *)
(* collaborator call, nothing is finalized, persisted or resynced, and the *)
(* world state keeps the effects of the transactions included before.      *)
(***************************************************************************)
C4_FatalAborts ==
    /\ \A i \in DOMAIN calls :
          (calls[i].op = "add_transaction" /\ calls[i].outcome \notin SkipClass \cup {"Ok"}) =>
              /\ i = Len(calls)
              /\ pc = "done"
              /\ Failed("BlockTransaction")
    /\ Failed("BlockTransaction") =>
          /\ calls[Len(calls)].op = "add_transaction"
          /\ calls[Len(calls)].outcome \notin SkipClass \cup {"Ok"}
          /\ calls[Len(calls)].tx = offered[Len(offered)].order_id
          /\ \A i \in DOMAIN calls :
                calls[i].op \notin {"finalize", "insert_block", "update"}
          /\ block = None
          /\ blockchain.blocks = <<>>
          /\ ~mem_pool.updated
          /\ state.transactions = IdsOf(results)
          /\ state.rewards = <<>>

\* A fatal error after a transaction was included.
C4_Witness ==
    /\ Failed("BlockTransaction")
    /\ Len(state.transactions) >= 1

Closing == SelectSeq(calls, LAMBDA c : c.op \in {"finalize", "insert_block", "update"})
ClosingOrder == <<"finalize", "insert_block", "update">>

(***************************************************************************)
(* C5.  finalize, insert_block and update are called in that order, each   *)
(* at most once, finalize only once the cursor is drained and the others   *)
(* only after the step before succeeded.  So a finalize error leaves       *)
(* nothing persisted and the mempool not updated, an insert_block error    *)
(* leaves the mempool not updated, and when the mempool update error is    *)
(* returned the block is already in the store.                             *)
(***************************************************************************)
C5_CloseInOrder ==
    /\ Len(Closing) <= Len(ClosingOrder)
    /\ \A i \in DOMAIN Closing :
          /\ Closing[i].op = ClosingOrder[i]
          /\ i > 1 => Closing[i - 1].outcome = "Ok"
    /\ \A i \in DOMAIN calls :
          calls[i].op \in {"finalize", "insert_block", "update"} =>
              /\ pending_transactions = {}
              /\ \A j \in DOMAIN calls :
                    (j > i) => calls[j].op \in {"insert_block", "update"}
    /\ Len(blockchain.blocks) = Cardinality({i \in DOMAIN calls :
                              calls[i] = Call("insert_block", 0, "Ok")})
    /\ mem_pool.updated <=> \E i \in DOMAIN calls : calls[i] = Call("update", 0, "Ok")
    /\ Failed("BlockFinalize") => blockchain.blocks = <<>> /\ ~mem_pool.updated
    /\ (Failed("Blockchain") /\ Len(Closing) > 0) =>
          blockchain.blocks = <<>> /\ ~mem_pool.updated
    /\ Failed("MemPoolUpdate") => blockchain.blocks = <<block>> /\ ~mem_pool.updated

\* The mempool update fails after a block with a transaction was persisted.
C5_Witness ==
    /\ Failed("MemPoolUpdate")
    /\ Len(blockchain.blocks) = 1
    /\ Len(blockchain.blocks[1].transactions) >= 1

OkAdds == IdsOf(SelectSeq(calls,
              LAMBDA c : c.op = "add_transaction" /\ c.outcome = "Ok"))
OfferedIds == [i \in DOMAIN offered |-> offered[i].order_id]
PosIn(seq, x) == CHOOSE i \in DOMAIN seq : seq[i] = x
IsOrderedSubsequence(sub, seq) ==
    /\ Range(sub) \subseteq Range(seq)
    /\ \A i, j \in DOMAIN sub : i < j => PosIn(seq, sub[i]) < PosIn(seq, sub[j])

(***************************************************************************)
(* C6.  On success transaction_results and transaction_traces have the     *)
(* same length, entry i of each is that of the i-th included transaction,  *)
(* and the included transactions are a subsequence, in the same order, of  *)
(* what the cursor offered, with no skipped transaction among them.        *)
(***************************************************************************)
C6_ResultsFollowInclusion ==
    Succeeded =>
        /\ Len(ret.transaction_results) = Len(ret.transaction_traces)
        /\ IdsOf(ret.transaction_results) = OkAdds
        /\ IdsOf(ret.transaction_traces) = OkAdds
        /\ ret.block.transactions = OkAdds
        /\ IsOrderedSubsequence(IdsOf(ret.transaction_results), OfferedIds)
        /\ \A t \in Range(offered) :
              (\/ t.gas_price < min_gas_price
               \/ \E i \in DOMAIN calls :
                     /\ calls[i].op = "add_transaction"
                     /\ calls[i].tx = t.order_id
                     /\ calls[i].outcome # "Ok") =>
                  t.order_id \notin Range(IdsOf(ret.transaction_results))

\* A success with two included transactions, offered in the other order
\* than they were inserted.
C6_Witness ==
    /\ Succeeded
    /\ Len(ret.transaction_results) = 2
    /\ ret.transaction_results[1].tx > ret.transaction_results[2].tx

RECURSIVE GasSum(_)
GasSum(seq) == IF seq = <<>> THEN 0 ELSE seq[1].gas_used + GasSum(Tail(seq))

(***************************************************************************)
(* C7.  At every point of the loop and in the finalized block, the gas of  *)
(* the transactions included so far sums to at most the mempool's block    *)
(* gas limit.                                                              *)
(***************************************************************************)
C7_GasWithinLimit ==
    /\ GasSum(results) <= mem_pool.block_gas_limit
    /\ block_builder # None => block_builder.gas_used = GasSum(results)
    /\ block # None =>
          /\ block.gas_used = GasSum(results)
          /\ block.gas_used <= mem_pool.block_gas_limit

\* A block in which a transaction was included and the next one, which did
\* not fit in what remained, was rejected.
C7_Witness ==
    /\ block # None
    /\ block.gas_used >= 1
    /\ calls[Len(calls) - 1].op = "add_transaction"
    /\ calls[Len(calls) - 1].outcome = "ExceedsBlockGasLimit"
    /\ \E t \in Range(offered) :
          /\ t.order_id = calls[Len(calls) - 1].tx
          /\ t.gas_limit <= mem_pool.block_gas_limit

ParentFetched == Len(calls) >= 1 /\ calls[1] = Call("last_block", 0, "Ok")
SetupFailed ==
    \/ Failed("MissingPrevrandao")
    \/ Failed("BlockBuilderCreation")
    \/ Failed("Blockchain") /\ calls[Len(calls)].op = "last_block"

SetupFailureTouchesNothing ==
    /\ \A i \in DOMAIN calls :
          /\ calls[i] = Call("last_block", 0, "Err") =>
                Failed("Blockchain") /\ i = Len(calls)
          /\ calls[i] = Call("new", 0, "Err") =>
                Failed("BlockBuilderCreation") /\ i = Len(calls)
    /\ SetupFailed =>
          /\ offered = <<>>
          /\ pending_transactions = {}
          /\ results = <<>> /\ traces = <<>>
          /\ state = [transactions |-> <<>>, rewards |-> <<>>]
          /\ \A i \in DOMAIN calls : calls[i].op \in {"last_block", "new"}
          /\ block = None
          /\ blockchain.blocks = <<>>
          /\ ~mem_pool.updated

(***************************************************************************)
(* C8.  As stated: a setup failure (last_block fails, prevrandao missing   *)
(* after the merge, BlockBuilder::new fails) returns an error before any   *)
(* transaction is taken or executed and before anything is finalized,      *)
(* persisted or resynced; and, the parent fetch having succeeded, the      *)
(* attempt ends with the MissingPrevrandao error if and only if the chain  *)
(* is merge-active and prevrandao is absent.                               *)
(***************************************************************************)
C8_Original ==
    /\ SetupFailureTouchesNothing
    /\ (ParentFetched /\ pc \in {"done", "panicked"}) =>
          (Failed("MissingPrevrandao") <=> (cfg = "MERGE" /\ prevrandao = None))

(***************************************************************************)
(* C8, amended.  The same, the missing-prevrandao error being returned if  *)
(* and only if the chain is merge-active and prevrandao is absent, given   *)
(* that the parent fetch succeeded and that the base fee computation,      *)
(* which comes first, did not panic.                                       *)
(***************************************************************************)
C8_SetupErrors ==
    /\ SetupFailureTouchesNothing
    /\ (ParentFetched /\ pc \notin {"base_fee", "block_builder", "panicked"}) =>
          (Failed("MissingPrevrandao") <=> (cfg = "MERGE" /\ prevrandao = None))

\* The missing-prevrandao error, with a transaction waiting in the mempool.
C8_Witness ==
    /\ Failed("MissingPrevrandao")
    /\ mem_pool.transactions # {}

(***************************************************************************)
(* C9.  The base fee of the new block is present if and only if the chain  *)
(* is at London or later.  It is then the override if one is supplied,     *)
(* else calculate_next_base_fee of the parent header; before London it is  *)
(* absent even with an override.  The builder and the block carry it.      *)
(***************************************************************************)
C9_BaseFee ==
    (ParentFetched /\ pc \notin {"base_fee", "panicked"}) =>
        /\ base_fee.is_some <=> cfg \in {"LONDON", "MERGE"}
        /\ (cfg \in {"LONDON", "MERGE"} /\ base_fee_param.is_some) =>
              base_fee = base_fee_param
        /\ (cfg \in {"LONDON", "MERGE"} /\ ~base_fee_param.is_some) =>
              base_fee = Some(calculate_next_base_fee(parent_header))
        /\ block_builder # None => block_builder.base_fee = base_fee
        /\ block # None => block.base_fee = base_fee

\* In the loop after London with an override that differs from what the
\* parent header gives.
C9_Witness ==
    /\ pc = "loop"
    /\ cfg \in {"LONDON", "MERGE"}
    /\ base_fee_param.is_some
    /\ base_fee = base_fee_param
    /\ ~NextBaseFeePanics(parent_header)
    /\ base_fee.value # calculate_next_base_fee(parent_header)

ExactNextBaseFee(parent) ==
    LET target == parent.gas_limit \div 2
        fee == parent.base_fee_per_gas.value
        used == parent.gas_used
    IN  IF used < target
        THEN Max(0, fee - ((fee * (target - used)) \div target) \div 8)
        ELSE IF used = target THEN fee
        ELSE fee + Max(1, ((fee * (used - target)) \div target) \div 8)

(***************************************************************************)
(* C10.  For every parent header with a base fee and a gas target          *)
(* gas_limit / 2 > 0, calculate_next_base_fee returns the parent base fee  *)
(* minus base_fee * (target - gas_used) / target / 8 (not below zero) when *)
(* gas_used < target, the parent base fee when gas_used = target, and the  *)
(* parent base fee plus max(1, base_fee * (gas_used - target) / target /   *)
(* 8) when gas_used > target, the divisions truncating.                    *)
(***************************************************************************)
C10_Original ==
    (pc = "fee_done" /\ parent_header.gas_limit \div 2 > 0) =>
        base_fee = Some(ExactNextBaseFee(parent_header))

\* The header with another gas_used.
WithGasUsed(parent, used) == [parent EXCEPT !.gas_used = used]

(***************************************************************************)
(* C11.  For a fixed parent base fee and gas limit with a gas target above *)
(* zero, calculate_next_base_fee does not decrease when gas_used grows:    *)
(* what it returns for the header is at most what it returns for the same  *)
(* header with any larger gas_used.                                        *)
(***************************************************************************)
C11_Original ==
    (pc = "fee_done" /\ parent_gas_target(parent_header) > 0) =>
        \A g2 \in parent_header.gas_used..MaxWord :
            calculate_next_base_fee(parent_header)
                <= calculate_next_base_fee(WithGasUsed(parent_header, g2))

\* The values of lines 229-245 before they are reduced to the word width.
GasUsedDelta(parent) ==
    IF parent.gas_used < parent_gas_target(parent)
    THEN parent_gas_target(parent) - parent.gas_used
    ELSE parent.gas_used - parent_gas_target(parent)
Product(parent) == parent.base_fee_per_gas.value * GasUsedDelta(parent)
Sum(parent) ==
    parent.base_fee_per_gas.value
        + Max(BaseFeeDelta(parent.base_fee_per_gas.value, GasUsedDelta(parent),
                           parent_gas_target(parent)), 1)

(***************************************************************************)
(* C12.  In calculate_next_base_fee no intermediate value exceeds the      *)
(* largest word: not the product parent_base_fee * gas_used_delta of       *)
(* either branch, not the sum parent_base_fee + delta of the Greater       *)
(* branch.                                                                 *)
(***************************************************************************)
C12_Original ==
    (pc = "fee_done" /\ parent_header.gas_used # parent_gas_target(parent_header)) =>
        /\ Product(parent_header) <= MaxWord
        /\ parent_header.gas_used > parent_gas_target(parent_header) =>
              Sum(parent_header) <= MaxWord

(***************************************************************************)
(* C20.  For every parent header with a gas target above zero and gas_used *)
(* at most gas_limit, the base fee moves by at most one eighth: above the  *)
(* target the result is greater than the parent base fee and at most the   *)
(* parent base fee plus max(1, parent base fee / 8); below the target it   *)
(* is at most the parent base fee and at least the parent base fee minus   *)
(* parent base fee / 8.                                                    *)
(***************************************************************************)
C20_Original ==
    (/\ pc = "fee_done"
     /\ parent_gas_target(parent_header) > 0
     /\ parent_header.gas_used <= parent_header.gas_limit) =>
        LET fee == parent_header.base_fee_per_gas.value
            target == parent_gas_target(parent_header)
            used == parent_header.gas_used
        IN  /\ used > target =>
                  /\ base_fee.value > fee
                  /\ base_fee.value <= fee + Max(1, fee \div 8)
            /\ used < target =>
                  /\ base_fee.value <= fee
                  /\ base_fee.value >= fee - fee \div 8

\* The effective fee as a number that may be negative, and the order it
\* gives: descending fee, then ascending insertion id.
ExactEffectiveFee(t, fee) ==
    LET cap == IF t.max_priority_fee_per_gas.is_some
               THEN t.max_priority_fee_per_gas.value ELSE t.gas_price
    IN  IF fee.is_some THEN Min(cap, t.gas_price - fee.value) ELSE t.gas_price
ExactPriorityOrder(t, u, fee) ==
    IF ExactEffectiveFee(t, fee) > ExactEffectiveFee(u, fee) THEN "Less"
    ELSE IF ExactEffectiveFee(t, fee) < ExactEffectiveFee(u, fee) THEN "Greater"
    ELSE Cmp(t.order_id, u.order_id)
Flip(ordering) ==
    CASE ordering = "Less" -> "Greater"
      [] ordering = "Greater" -> "Less"
      [] ordering = "Equal" -> "Equal"

(***************************************************************************)
(* C13.  Under the Priority policy the comparator puts the pending         *)
(* transactions in descending order of effective fee (the gas price when   *)
(* there is no base fee, else min(priority fee cap, max fee cap - base     *)
(* fee)), equal fees in ascending order of insertion id, and it is a total *)
(* order on every set of pending transactions, those with a max fee cap    *)
(* below the base fee included.                                            *)
(***************************************************************************)
C13_Original ==
    (pc = "loop" /\ mine_ordering = "Priority") =>
        LET cmp(t, u) == comparator(mine_ordering, t, u, base_fee)
        IN  \A t, u \in mem_pool.transactions :
                /\ cmp(t, u) = ExactPriorityOrder(t, u, base_fee)
                /\ cmp(t, u) = Flip(cmp(u, t))
                /\ cmp(t, u) = "Equal" <=> t = u
                /\ \A v \in mem_pool.transactions :
                      (cmp(t, u) = "Less" /\ cmp(u, v) = "Less") => cmp(t, v) = "Less"

(***************************************************************************)
(* C14.  Under the Fifo policy the cursor offers the pending transactions  *)
(* in ascending order of insertion id, whatever their gas prices and fee   *)
(* caps and whatever the base fee: what was offered is in ascending order, *)
(* what is still to come has larger ids, and a transaction is never        *)
(* offered only when an earlier transaction of its sender was skipped.     *)
(***************************************************************************)
C14_FifoOrder ==
    mine_ordering = "Fifo" =>
        /\ \A i, j \in DOMAIN offered :
              i < j => offered[i].order_id < offered[j].order_id
        /\ \A t \in Range(offered), u \in pending_transactions :
              t.order_id < u.order_id
        /\ Drained =>
              \A u \in AllTransactions \ Range(offered) :
                  \E t \in Range(offered) :
                      /\ t.caller = u.caller
                      /\ t.order_id < u.order_id
                      /\ t.order_id \notin IncludedIds

\* Fifo before London: two senders, the cheaper transaction inserted first
\* and offered first, both given to the builder.
C14_Witness ==
    /\ mine_ordering = "Fifo"
    /\ Drained
    /\ ~base_fee.is_some
    /\ Len(offered) = 2
    /\ offered[1].caller # offered[2].caller
    /\ offered[1].order_id < offered[2].order_id
    /\ min_gas_price <= offered[1].gas_price
    /\ offered[1].gas_price < offered[2].gas_price

\* The mempool had no pending transaction when the attempt began.
EmptyMempool == mem_pool.transactions = {} /\ offered = <<>>

(***************************************************************************)
(* C15.  With an empty mempool the attempt takes no transaction: it fails  *)
(* only where setup, finalize, insert_block or update fails, and when they *)
(* all succeed it returns zero transaction results and traces and a block  *)
(* without transactions, finalize having been given exactly one reward     *)
(* entry, the block reward for the beneficiary.                            *)
(***************************************************************************)
C15_EmptyMempool ==
    EmptyMempool =>
        /\ \A i \in DOMAIN calls : calls[i].op # "add_transaction"
        /\ results = <<>> /\ traces = <<>>
        /\ (Returned /\ ~Succeeded) =>
              \/ Failed("MissingPrevrandao")
              \/ calls[Len(calls)].outcome = "Err"
        /\ (\E i \in DOMAIN calls : calls[i] = Call("finalize", 0, "Ok")) =>
              /\ Len(state.rewards) = 1
              /\ state.rewards[1] = [address |-> "beneficiary", amount |-> "reward"]
        /\ Succeeded =>
              /\ ret.transaction_results = <<>>
              /\ ret.transaction_traces = <<>>
              /\ ret.block.transactions = <<>>
              /\ ret.block.gas_used = 0
              /\ ret.state.transactions = <<>>
              /\ ret.state.rewards = <<[address |-> "beneficiary", amount |-> "reward"]>>

\* A success on an empty mempool.
C15_Witness ==
    /\ EmptyMempool
    /\ Succeeded
    /\ blockchain.blocks = <<ret.block>>

\* A step in which the cursor yields a transaction below min_gas_price
\* changes the cursor and nothing else.
FloorSkipChangesCursorOnly ==
    (/\ Len(offered') = Len(offered) + 1
     /\ offered'[Len(offered')].gas_price < min_gas_price) =>
        /\ UNCHANGED <<state, block_builder, results, traces, calls, block,
                       blockchain, mem_pool, pc, ret>>
        /\ offered'[Len(offered')] \in pending_transactions
        /\ pending_transactions' =
              {t \in pending_transactions :
                  t.caller # offered'[Len(offered')].caller}

(***************************************************************************)
(* C16.  A transaction whose gas price is below min_gas_price is never     *)
(* given to add_transaction, and the step that skips it leaves the world   *)
(* state, the builder (its remaining gas), results and traces as they      *)
(* were: only the cursor changes, losing the transaction and the rest of   *)
(* its sender's.                                                           *)
(***************************************************************************)
C16_FloorSkipFrame ==
    /\ [](\A t \in Range(offered) :
             t.gas_price < min_gas_price =>
                 \A i \in DOMAIN calls :
                     ~(calls[i].op = "add_transaction" /\ calls[i].tx = t.order_id))
    /\ [][FloorSkipChangesCursorOnly]_vars

\* In the loop, after a transaction was included and the next one, below
\* the floor, was skipped.
C16_Witness ==
    /\ pc = "loop"
    /\ Len(offered) = 2
    /\ Len(results) = 1
    /\ block_builder.gas_used >= 1
    /\ offered[2].gas_price < min_gas_price
    /\ offered[2].order_id \notin IncludedIds

(***************************************************************************)
(* C17.  What was included stays included: at every point the results,     *)
(* the traces, the transactions applied to the world state and those of    *)
(* the builder are exactly the transactions add_transaction accepted, in   *)
(* that order, whatever was skipped afterwards, a later transaction of the *)
(* same sender included; the finalized block and the returned result       *)
(* carry them all.                                                         *)
(***************************************************************************)
C17_IncludedStay ==
    /\ IdsOf(results) = OkAdds
    /\ IdsOf(traces) = OkAdds
    /\ state.transactions = OkAdds
    /\ block_builder # None => block_builder.transactions = OkAdds
    /\ block # None => block.transactions = OkAdds
    /\ Succeeded =>
          /\ IdsOf(ret.transaction_results) = OkAdds
          /\ IdsOf(ret.transaction_traces) = OkAdds
          /\ ret.state.transactions = OkAdds

\* A success where a sender's first transaction was included and a later
\* transaction of the same sender was rejected by the builder and skipped.
C17_Witness ==
    /\ Succeeded
    /\ \E i, j \in DOMAIN offered :
          /\ i < j
          /\ offered[i].caller = offered[j].caller
          /\ offered[i].order_id \in Range(IdsOf(ret.transaction_results))
          /\ offered[i].order_id \in Range(ret.block.transactions)
          /\ \E k \in DOMAIN calls :
                /\ calls[k].op = "add_transaction"
                /\ calls[k].tx = offered[j].order_id
                /\ calls[k].outcome \in SkipClass

Ended == pc \in {"done", "panicked"}
NoDuplicates(seq) == \A i, j \in DOMAIN seq : seq[i] = seq[j] => i = j
AddCalls == SelectSeq(calls, LAMBDA c : c.op = "add_transaction")

\* A step of the loop with the cursor not drained takes one transaction out
\* of it.
IterationConsumesOne ==
    (pc = "loop" /\ pending_transactions # {}) =>
        /\ Len(offered') = Len(offered) + 1
        /\ offered'[Len(offered')] \in pending_transactions
        /\ pending_transactions' \subseteq pending_transactions \ {offered'[Len(offered')]}

\* Every transaction is yielded and given to the builder at most once, and a
\* call that failed is the last call of the attempt.
NoRetry ==
    /\ NoDuplicates(OfferedIds)
    /\ NoDuplicates(IdsOf(AddCalls))
    /\ NoDuplicates([i \in DOMAIN Closing |-> Closing[i].op])
    /\ \A i \in DOMAIN calls :
          calls[i].outcome \notin SkipClass \cup {"Ok"} =>
              i = Len(calls) /\ Returned /\ ~ret.ok

(***************************************************************************)
(* C18.  As stated: for every finite set of pending transactions           *)
(* mine_block returns a result or an error, every collaborator call        *)
(* returning; each iteration of the loop consumes one transaction of the   *)
(* cursor, every transaction is offered to the builder at most once, and   *)
(* no failed step is retried.                                              *)
(***************************************************************************)
C18_Original ==
    /\ <>Returned
    /\ []NoRetry
    /\ [][IterationConsumesOne]_vars

(***************************************************************************)
(* C18, amended.  For every finite set of pending transactions mine_block  *)
(* ends: it returns a result or an error, or it panics in the base fee     *)
(* computation, before the loop.  Each iteration of the loop consumes one  *)
(* transaction of the cursor, every transaction is offered to the builder  *)
(* at most once, and no failed step is retried.                            *)
(***************************************************************************)
C18_Terminates ==
    /\ <>Ended
    /\ [](pc = "panicked" => ~Returned /\ offered = <<>> /\ block_builder = None)
    /\ []NoRetry
    /\ [][IterationConsumesOne]_vars

\* An attempt that ended after the loop ran twice, the second transaction
\* failing in the builder.
C18_Witness ==
    /\ Ended
    /\ Len(offered) = 2
    /\ Len(AddCalls) = 2
    /\ Failed("BlockTransaction")

\* The parent header lets calculate_next_base_fee divide by a zero target.
ZeroTargetParent ==
    /\ parent_header.base_fee_per_gas.is_some
    /\ parent_header.gas_limit \div 2 = 0
    /\ parent_header.gas_used # 0

(***************************************************************************)
(* C19.  As stated: calculate_next_base_fee is invoked if and only if the  *)
(* chain is fee-market-active and no override is supplied.  With an        *)
(* override or before the fee market a parent header without base fee      *)
(* never makes the attempt fail, and the attempt aborts with a panic only  *)
(* when the chain is fee-market-active, there is no override and the       *)
(* parent header has no base fee.                                          *)
(***************************************************************************)
C19_Original ==
    /\ (ParentFetched /\ pc # "base_fee" /\ ~parent_header.base_fee_per_gas.is_some) =>
          (pc = "panicked" <=> (cfg \in {"LONDON", "MERGE"} /\ base_fee_param = None))
    /\ pc = "panicked" =>
          /\ cfg \in {"LONDON", "MERGE"}
          /\ base_fee_param = None
          /\ ~parent_header.base_fee_per_gas.is_some

(***************************************************************************)
(* C19, amended.  calculate_next_base_fee is invoked if and only if the    *)
(* chain is fee-market-active and no override is supplied: a parent header *)
(* it panics on (no base fee, or a gas limit below 2 with gas used) makes  *)
(* the attempt abort with a panic in exactly that case, and with an        *)
(* override or before the fee market the attempt goes on past the base     *)
(* fee.  The attempt panics for no other reason.                           *)
(***************************************************************************)
C19_NextBaseFeeCalled ==
    /\ (/\ ParentFetched
        /\ pc # "base_fee"
        /\ ~parent_header.base_fee_per_gas.is_some \/ ZeroTargetParent) =>
          (pc = "panicked" <=> (cfg \in {"LONDON", "MERGE"} /\ base_fee_param = None))
    /\ pc = "panicked" =>
          /\ cfg \in {"LONDON", "MERGE"}
          /\ base_fee_param = None
          /\ ~parent_header.base_fee_per_gas.is_some \/ ZeroTargetParent
          /\ ~Returned
    /\ (ParentFetched /\ pc \notin {"base_fee", "panicked"}
            /\ cfg \in {"LONDON", "MERGE"} /\ base_fee_param = None) =>
          base_fee = Some(calculate_next_base_fee(parent_header))

\* The panic on a parent header without base fee, transactions pending.
C19_Witness ==
    /\ pc = "panicked"
    /\ ~parent_header.base_fee_per_gas.is_some
    /\ mem_pool.transactions # {}

====
